---- MODULE Spec2Model ----
(***************************************************************************)
(* Model of getcsp.js (csp-directive-editor): the CSP parser               *)
(* (deserializeCSP), the serializer (serializeCSP) and the interactive     *)
(* editor (editCSP / addDirective) driven by readline prompts.             *)
(*                                                                         *)
(* A JavaScript string is modelled as a sequence of one-character strings, *)
(* so that split, trim, join, toUpperCase and parseInt are computed the    *)
(* way the engine computes them.  The directives object is modelled as the *)
(* sequence of its own properties in property-enumeration order            *)
(* (OrdinaryOwnPropertyKeys): array-index keys in ascending numeric order, *)
(* then the other string keys in the order they were created.              *)
(***************************************************************************)
EXTENDS Integers, Sequences, FiniteSets, TLC

\* ------------------------------------------------------------------------
\* Bounds of the model
\* ------------------------------------------------------------------------

\* Every string of at most MaxLen characters over Alphabet is a parser input.
MaxLen == 5

\* Parser inputs are also built from at most MaxClauses clauses of ClauseSet.
MaxClauses == 3

\* A session handles at most MaxSteps input lines.
MaxSteps == 5

\* ------------------------------------------------------------------------
\* JavaScript strings
\* ------------------------------------------------------------------------

SP == " "
TAB == "\t"
SEMI == ";"

\* The characters String.prototype.trim strips (those of the model's alphabet).
WhiteSpace == {SP, TAB}

Digits == {"0", "1", "2", "3", "4", "5", "6", "7", "8", "9"}

DigitVal(c) ==
    CASE c = "0" -> 0 [] c = "1" -> 1 [] c = "2" -> 2 [] c = "3" -> 3
      [] c = "4" -> 4 [] c = "5" -> 5 [] c = "6" -> 6 [] c = "7" -> 7
      [] c = "8" -> 8 [] c = "9" -> 9

\* String.prototype.split(sep) for a one-character separator: the maximal
\* separator-free segments, empty ones included; "" splits into [""].
RECURSIVE split(_, _)
split(s, sep) ==
    IF \A i \in 1..Len(s) : s[i] # sep
    THEN <<s>>
    ELSE LET i == CHOOSE k \in 1..Len(s) :
                      s[k] = sep /\ \A j \in 1..(k - 1) : s[j] # sep
         IN  <<SubSeq(s, 1, i - 1)>> \o split(SubSeq(s, i + 1, Len(s)), sep)

\* String.prototype.trim: white space removed from both ends only.
trim(s) ==
    IF \A i \in 1..Len(s) : s[i] \in WhiteSpace
    THEN <<>>
    ELSE LET lo == CHOOSE k \in 1..Len(s) :
                       s[k] \notin WhiteSpace
                       /\ \A j \in 1..(k - 1) : s[j] \in WhiteSpace
             hi == CHOOSE k \in 1..Len(s) :
                       s[k] \notin WhiteSpace
                       /\ \A j \in (k + 1)..Len(s) : s[j] \in WhiteSpace
         IN  SubSeq(s, lo, hi)

\* Array.prototype.map((v) => v.trim()).
mapTrim(ss) == [i \in 1..Len(ss) |-> trim(ss[i])]

\* A string is truthy exactly when it is not empty.
Truthy(s) == s # <<>>

\* Array.prototype.filter((v) => v).
filterTruthy(ss) == SelectSeq(ss, Truthy)

\* Array.prototype.join(sep).
RECURSIVE join(_, _)
join(ss, sep) ==
    IF ss = <<>> THEN <<>>
    ELSE IF Len(ss) = 1 THEN ss[1]
    ELSE ss[1] \o sep \o join(Tail(ss), sep)

Lower == <<"a", "b", "c", "d", "e", "f", "g", "h", "i", "j", "k", "l", "m",
           "n", "o", "p", "q", "r", "s", "t", "u", "v", "w", "x", "y", "z">>
Upper == <<"A", "B", "C", "D", "E", "F", "G", "H", "I", "J", "K", "L", "M",
           "N", "O", "P", "Q", "R", "S", "T", "U", "V", "W", "X", "Y", "Z">>

\* String.prototype.toUpperCase, character by character.
toUpperCase(s) ==
    [i \in 1..Len(s) |->
        IF \E k \in 1..26 : Lower[k] = s[i]
        THEN Upper[CHOOSE k \in 1..26 : Lower[k] = s[i]]
        ELSE s[i]]

\* The longest prefix of s made of decimal digits.
RECURSIVE DigitPrefix(_)
DigitPrefix(s) ==
    IF s # <<>> /\ s[1] \in Digits THEN <<s[1]>> \o DigitPrefix(Tail(s)) ELSE <<>>

\* The number a string of digits denotes.
RECURSIVE DecimalValue(_)
DecimalValue(ds) ==
    IF ds = <<>> THEN 0
    ELSE 10 * DecimalValue(SubSeq(ds, 1, Len(ds) - 1)) + DigitVal(ds[Len(ds)])

\* White space removed from the front, as parseInt does first.
RECURSIVE trimStart(_)
trimStart(s) ==
    IF s # <<>> /\ s[1] \in WhiteSpace THEN trimStart(Tail(s)) ELSE s

\* parseInt(string) without a radix, for strings that do not begin with
\* "0x": leading white space is skipped, one sign is read, then the longest
\* run of digits; anything after it is ignored; no digit at all gives NaN.
parseInt(str) ==
    LET s1 == trimStart(str)
        signed == s1 # <<>> /\ s1[1] \in {"+", "-"}
        s2 == IF signed THEN Tail(s1) ELSE s1
        ds == DigitPrefix(s2)
    IN  IF ds = <<>> THEN [nan |-> TRUE, val |-> 0]
        ELSE [nan |-> FALSE,
              val |-> IF signed /\ s1[1] = "-" THEN 0 - DecimalValue(ds)
                      ELSE DecimalValue(ds)]

\* ------------------------------------------------------------------------
\* The directives object
\* ------------------------------------------------------------------------

\* Lexicographic order of two digit strings of the same length.
RECURSIVE LexLess(_, _)
LexLess(a, b) ==
    IF a = <<>> THEN FALSE
    ELSE IF a[1] # b[1] THEN DigitVal(a[1]) < DigitVal(b[1])
    ELSE LexLess(Tail(a), Tail(b))

\* Numeric order of two canonical numeric strings.
NumLess(a, b) == Len(a) < Len(b) \/ (Len(a) = Len(b) /\ LexLess(a, b))

\* 2^32 - 2, the largest array index.
MaxArrayIndex == <<"4", "2", "9", "4", "9", "6", "7", "2", "9", "4">>

\* A property key is an array index when it is the canonical decimal form of
\* an integer in 0 .. 2^32 - 2; such keys are enumerated first, ascending.
IsArrayIndex(k) ==
    /\ k # <<>>
    /\ \A i \in 1..Len(k) : k[i] \in Digits
    /\ (Len(k) > 1 => k[1] # "0")
    /\ ~NumLess(MaxArrayIndex, k)

HasKey(o, k) == \E i \in 1..Len(o) : o[i].key = k

\* directives[k]
Get(o, k) == o[CHOOSE i \in 1..Len(o) : o[i].key = k].values

\* directives[k] = v as every engine orders own properties: an existing
\* key keeps its place; a new array-index key goes among the array-index keys in
\* ascending order; any other new key goes last.
PropSet(o, k, v) ==
    IF HasKey(o, k)
    THEN [i \in 1..Len(o) |-> IF o[i].key = k THEN [key |-> k, values |-> v] ELSE o[i]]
    ELSE IF IsArrayIndex(k)
    THEN LET before == SelectSeq(o, LAMBDA e : IsArrayIndex(e.key) /\ NumLess(e.key, k))
             after  == SelectSeq(o, LAMBDA e : ~(IsArrayIndex(e.key) /\ NumLess(e.key, k)))
         IN  before \o <<[key |-> k, values |-> v]>> \o after
    ELSE Append(o, [key |-> k, values |-> v])

\* Object.keys(directives)
ObjectKeys(o) == [i \in 1..Len(o) |-> o[i].key]

\* Object.entries(directives)
ObjectEntries(o) == o

\* ------------------------------------------------------------------------
\* deserializeCSP and serializeCSP
\* ------------------------------------------------------------------------

\* Mutant of Pairs: the filter is left out, so empty clauses stay.
Pairs_NoFilter(cspString) == mapTrim(split(cspString, SEMI))

\* cspString.split(";").map((d) => d.trim()).filter((d) => d)
Pairs(cspString) == filterTruthy(mapTrim(split(cspString, SEMI)))

\* pair.split(" ").map((v) => v.trim()): element 1 is the directive, the
\* rest are its values.
PairTokens(pair) == mapTrim(split(pair, SP))

\* Mutant of ForEachPair: a pair without values assigns nothing.
RECURSIVE ForEachPair_SkipEmpty(_, _)
ForEachPair_SkipEmpty(directivesObj, pairs) ==
    IF pairs = <<>> THEN directivesObj
    ELSE LET toks == PairTokens(pairs[1])
         IN  ForEachPair_SkipEmpty(
                 IF Tail(toks) = <<>> THEN directivesObj
                 ELSE PropSet(directivesObj, toks[1], Tail(toks)),
                 Tail(pairs))

\* pairs.forEach: each pair assigns directives[directive] = values.
RECURSIVE ForEachPair(_, _)
ForEachPair(directivesObj, pairs) ==
    IF pairs = <<>> THEN directivesObj
    ELSE LET toks == PairTokens(pairs[1])
         IN  ForEachPair(PropSet(directivesObj, toks[1], Tail(toks)), Tail(pairs))

deserializeCSP(cspString) == ForEachPair(<<>>, Pairs(cspString))

\* Mutant of Clause: the space between the key and the values is left out.
Clause_NoSpace(e) == e.key \o join(e.values, <<SP>>)

\* `${key} ${values.join(" ")}`
Clause(e) == e.key \o <<SP>> \o join(e.values, <<SP>>)

\* Mutant of serializeCSP: the clauses are joined by a space alone.
serializeCSP_JoinSpace(directivesObj) ==
    join([i \in 1..Len(ObjectEntries(directivesObj)) |->
              Clause(ObjectEntries(directivesObj)[i])],
         <<SP>>)

serializeCSP(directivesObj) ==
    join([i \in 1..Len(ObjectEntries(directivesObj)) |->
              Clause(ObjectEntries(directivesObj)[i])],
         <<SEMI, SP>>)

\* ------------------------------------------------------------------------
\* State
\* ------------------------------------------------------------------------

VARIABLES
    \* Parser/serializer runs (SpecParse)
    ppc,          \* "input", "parsed", "serialized", "reparsed"; "off" in a session
    S,            \* the policy string handed to deserializeCSP
    S0,           \* S without its blank clauses and without the white space
                  \* around its separators
    D,            \* deserializeCSP(S)
    D0,           \* deserializeCSP(S0)
    T,            \* serializeCSP(D)
    D2,           \* deserializeCSP(T)
    \* Sessions (Spec)
    pc,           \* "main", "fetching", "MENU", "EDIT_VALUE", "ADD_NAME",
                  \* "TERMINATED", "usage"; "off" in a parser run
    url,          \* whether process.argv[2] was given
    response,     \* what fetch(url) will produce
    directives,   \* the directives object editCSP and addDirective mutate
    directive,    \* the key captured by the EDIT_VALUE prompt's callback
    display,      \* what editCSP last printed: the count and the numbered rows
    notice,       \* the last notice printed
    finalCSP,     \* the string printed on P (None before)
    file,         \* the content of generated_csp.txt (None while not written)
    writes,       \* number of fs.writeFileSync calls so far
    pending,      \* number of rl.question callbacks outstanding
    steps,        \* input lines handled so far
    input,        \* the line the last callback received (None before any)
    inserted      \* history: the names in order of first insertion

pvars == <<ppc, S, S0, D, D0, T, D2>>
svars == <<pc, url, response, directives, directive, display, notice,
           finalCSP, file, writes, pending, steps, input, inserted>>
vars == <<pvars, svars>>

\* The value of a string variable that holds no string yet (undefined): no
\* JavaScript string of the model, all of which are made of single characters.
None == <<"none">>

\* The display before editCSP has printed anything.
NoDisplay == [count |-> -1, rows |-> <<>>]

\* The response before any is chosen (no URL was given).
NoResponse == [kind |-> "none", csp |-> <<>>]

\* ------------------------------------------------------------------------
\* Parser and serializer runs
\* ------------------------------------------------------------------------

Alphabet == {"a", "1", "2", SP, SEMI, TAB}

AllStrings(n) == UNION {[1..k -> Alphabet] : k \in 0..n}

\* Clauses of several shapes: empty, blank, name only, padded, one value,
\* a run of spaces, a tab inside, a numeric name.
ClauseSet ==
    { <<>>, <<SP>>, <<"a">>, <<SP, "a", SP>>, <<"a", SP, "1">>,
      <<SP, "b", SP, "2">>, <<"a", SP, "3">>, <<"a", SP, SP, "1">>,
      <<"a", TAB, "1">>, <<"1", SP, "b">>, <<"2">>, <<"b">> }

ClauseLists == UNION {[1..k -> ClauseSet] : k \in 0..MaxClauses}

\* Policy strings quoted in the documentation of the parser.
ExA1B2Stray == <<"a", SP, "1", SEMI, SP, SEMI, SP, "b", SP, "2", SEMI>>
ExA1B2 == <<"a", SP, "1", SEMI, SP, "b", SP, "2">>
ExA1B2A3 == <<"a", SP, "1", SEMI, SP, "b", SP, "2", SEMI, SP, "a", SP, "3">>
UpgradeInsecureRequests ==
    <<"u", "p", "g", "r", "a", "d", "e", "-", "i", "n", "s", "e", "c", "u", "r", "e",
      "-", "r", "e", "q", "u", "e", "s", "t", "s">>
ExUpgrade == UpgradeInsecureRequests \o <<SEMI>>

Examples == {ExA1B2Stray, ExA1B2, ExA1B2A3, ExUpgrade}

\* The clause lists whose join by ";" is an input of the parser.
InputClauseLists ==
    ClauseLists \cup {split(s, SEMI) : s \in AllStrings(MaxLen) \cup Examples}

\* A clause without the white space at its two ends.
RECURSIVE StripLeft(_)
StripLeft(s) ==
    IF s # <<>> /\ s[1] \in WhiteSpace THEN StripLeft(Tail(s)) ELSE s

RECURSIVE StripRight(_)
StripRight(s) ==
    IF s # <<>> /\ s[Len(s)] \in WhiteSpace
    THEN StripRight(SubSeq(s, 1, Len(s) - 1))
    ELSE s

Strip(s) == StripRight(StripLeft(s))

\* A clause that the parser is to drop: empty once trimmed.
Blank(clause) == \A i \in 1..Len(clause) : clause[i] \in WhiteSpace

NonBlank(clause) == ~Blank(clause)

InitParse ==
    /\ ppc = "input"
    /\ \E cl \in InputClauseLists :
          /\ S = join(cl, <<SEMI>>)
          /\ S0 = join([i \in 1..Len(SelectSeq(cl, NonBlank)) |->
                            Strip(SelectSeq(cl, NonBlank)[i])], <<SEMI>>)
    /\ D = <<>> /\ D0 = <<>> /\ T = None /\ D2 = <<>>
    /\ pc = "off" /\ url = FALSE /\ response = NoResponse /\ directives = <<>>
    /\ directive = None /\ display = NoDisplay /\ notice = "none"
    /\ finalCSP = None /\ file = None /\ writes = 0 /\ pending = 0
    /\ steps = 0 /\ input = None /\ inserted = <<>>

\* deserializeCSP applied to the input (and to the input without its blank
\* clauses).
Parse ==
    /\ ppc = "input"
    /\ D' = deserializeCSP(S)
    /\ D0' = deserializeCSP(S0)
    /\ ppc' = "parsed"
    /\ UNCHANGED <<S, S0, T, D2, svars>>

\* serializeCSP applied to the parsed set.
Serialize ==
    /\ ppc = "parsed"
    /\ T' = serializeCSP(D)
    /\ ppc' = "serialized"
    /\ UNCHANGED <<S, S0, D, D0, D2, svars>>

\* deserializeCSP applied to the serialized string.
Reparse ==
    /\ ppc = "serialized"
    /\ D2' = deserializeCSP(T)
    /\ ppc' = "reparsed"
    /\ UNCHANGED <<S, S0, D, D0, T, svars>>

NextParse == Parse \/ Serialize \/ Reparse

SpecParse == InitParse /\ [][NextParse]_vars

\* ------------------------------------------------------------------------
\* Sessions: main, getCSP, editCSP, addDirective
\* ------------------------------------------------------------------------

DefaultSrc == <<"d", "e", "f", "a", "u", "l", "t", "-", "s", "r", "c">>
ImgSrc == <<"i", "m", "g", "-", "s", "r", "c">>
Self == <<"'", "s", "e", "l", "f", "'">>
DataScheme == <<"d", "a", "t", "a", ":">>
CdnExample ==
    <<"h", "t", "t", "p", "s", ":", "/", "/", "c", "d", "n", ".", "e", "x", "a", "m",
      "p", "l", "e", ".", "c", "o", "m">>
FrameAncestors ==
    <<"f", "r", "a", "m", "e", "-", "a", "n", "c", "e", "s", "t", "o", "r", "s">>
QuotedNone == <<"'", "n", "o", "n", "e", "'">>

\* "default-src 'self'; img-src 'self' data:"
ExDefaultImg ==
    DefaultSrc \o <<SP>> \o Self \o <<SEMI, SP>> \o ImgSrc \o <<SP>> \o Self
        \o <<SP>> \o DataScheme

\* "'self' https://cdn.example.com"
LineSelfCdn == Self \o <<SP>> \o CdnExample

\* "frame-ancestors 'none'"
LineFrameAncestors == FrameAncestors \o <<SP>> \o QuotedNone

\* The content-security-policy header values a response may carry.
Headers == {<<>>, ExA1B2, ExDefaultImg, <<"b", SP, "x", SEMI, SP, "2", SP, "a">>}

\* What fetch(url) produces: a response with the header, a response without
\* it (headers.get returns null), or an exception.
Responses ==
    {[kind |-> "header", csp |-> h] : h \in Headers}
        \cup {[kind |-> "noheader", csp |-> <<>>], [kind |-> "error", csp |-> <<>>]}

\* The lines typed at the menu prompt.
Answers ==
    { <<"P">>, <<"p">>, <<"A">>, <<"a">>, <<"Q">>, <<"q">>,
      <<"0">>, <<"1">>, <<"2">>, <<"3">>, <<"4">>, <<"5">>,
      <<>>, <<"x">>, <<"-", "1">>, <<"2", "x">>, <<"x", "2">>, <<SP, "1">> }

\* The lines typed at the edit and add prompts.
Lines ==
    { <<>>, <<SP>>, <<TAB>>, <<"x">>, <<"x", SP, SP, "y">>, <<"x", TAB, "y">>,
      <<"a", SP, "3">>, <<"1", SP, "z">>, <<"x", SEMI, "y">>, LineSelfCdn,
      LineFrameAncestors }

\* The first occurrences of the elements of a sequence, in order.
RECURSIVE FirstOccurrences(_)
FirstOccurrences(ns) ==
    IF ns = <<>> THEN <<>>
    ELSE LET rest == FirstOccurrences(SubSeq(ns, 1, Len(ns) - 1))
             n == ns[Len(ns)]
         IN  IF \E i \in 1..Len(rest) : rest[i] = n THEN rest ELSE Append(rest, n)

\* The directive names in the order deserializeCSP assigns them.
PairNames(cspString) ==
    [i \in 1..Len(Pairs(cspString)) |-> PairTokens(Pairs(cspString)[i])[1]]

\* What editCSP prints before it prompts: the count, then one numbered row
\* per entry with the name and the space-joined values.
Display(o) ==
    [count |-> Len(ObjectKeys(o)),
     rows  |-> [i \in 1..Len(ObjectEntries(o)) |->
                   [index |-> (i - 1) + 1,
                    directive |-> ObjectEntries(o)[i].key,
                    values |-> join(ObjectEntries(o)[i].values, <<SP>>)]]]

\* Mutant of IsCommand: the comparison is case-sensitive.
IsCommand_CaseSensitive(answer, letter) == answer = <<letter>>

\* answer.toUpperCase() === letter
IsCommand(answer, letter) == toUpperCase(answer) = <<letter>>

\* parseInt(answer) - 1 (NaN stays NaN).
DirectiveIndex(answer) ==
    [nan |-> parseInt(answer).nan, val |-> parseInt(answer).val - 1]

\* directiveIndex >= 0 && directiveIndex < directiveKeys.length
InRange(answer, o) ==
    /\ ~DirectiveIndex(answer).nan
    /\ DirectiveIndex(answer).val >= 0
    /\ DirectiveIndex(answer).val < Len(ObjectKeys(o))

\* directiveKeys[directiveIndex] (JavaScript arrays start at 0)
SelectedKey(answer, o) == ObjectKeys(o)[DirectiveIndex(answer).val + 1]

\* line.split(" ").filter((v) => v)
LineTokens(line) == filterTruthy(split(line, SP))

\* Mutant of EditValue: the key is deleted and added again, which moves it.
EditValue_Reinsert(o, key, newValue) ==
    PropSet(SelectSeq(o, LAMBDA e : e.key # key), key, LineTokens(newValue))

\* directives[directive] = newValue.split(" ").filter((v) => v)
EditValue(o, key, newValue) == PropSet(o, key, LineTokens(newValue))

\* const [directive, ...values] = tokens; directives[directive] = values
AddTokens(o, toks) == PropSet(o, toks[1], Tail(toks))

Init ==
    /\ pc = "main"
    /\ \/ url = FALSE /\ response = NoResponse
       \/ url = TRUE /\ response \in Responses
    /\ directives = <<>> /\ directive = None /\ display = NoDisplay
    /\ notice = "none" /\ finalCSP = None /\ file = None /\ writes = 0
    /\ pending = 0 /\ steps = 0 /\ input = None /\ inserted = <<>>
    /\ ppc = "off" /\ S = None /\ S0 = None /\ D = <<>> /\ D0 = <<>>
    /\ T = None /\ D2 = <<>>

\* The top level of the script: without a URL the usage line is printed and
\* readline is closed; with one, getCSP is called and awaited.
Main ==
    /\ pc = "main"
    /\ IF ~url
       THEN pc' = "usage" /\ notice' = "usage"
       ELSE pc' = "fetching" /\ notice' = "none"
    /\ UNCHANGED <<url, response, directives, directive, display, finalCSP, file,
                   writes, pending, steps, input, inserted, pvars>>

\* Mutant of GetCSP: without the try/catch a failing fetch rejects the
\* promise, the then-callback never runs and no session starts.
GetCSP_Throws ==
    /\ pc = "fetching"
    /\ LET found == response.kind = "header" /\ Truthy(response.csp)
           d == IF found THEN deserializeCSP(response.csp) ELSE <<>>
       IN  /\ directives' = d
           /\ inserted' = IF found THEN FirstOccurrences(PairNames(response.csp))
                          ELSE <<>>
           /\ notice' = IF found THEN "none"
                        ELSE IF response.kind = "error" THEN "fetch_error"
                        ELSE "no_policy"
           /\ display' = IF response.kind = "error" THEN display ELSE Display(d)
    /\ pending' = IF response.kind = "error" THEN pending ELSE pending + 1
    /\ pc' = IF response.kind = "error" THEN "rejected" ELSE "MENU"
    /\ UNCHANGED <<url, response, directive, finalCSP, file, writes, steps, input,
                   pvars>>

\* getCSP(url) settles and its then-callback runs editCSP(directives), which
\* displays the set and registers the menu prompt.
GetCSP ==
    /\ pc = "fetching"
    /\ LET found == response.kind = "header" /\ Truthy(response.csp)
           d == IF found THEN deserializeCSP(response.csp) ELSE <<>>
       IN  /\ directives' = d
           /\ inserted' = IF found THEN FirstOccurrences(PairNames(response.csp))
                          ELSE <<>>
           /\ notice' = IF found THEN "none"
                        ELSE IF response.kind = "error" THEN "fetch_error"
                        ELSE "no_policy"
           /\ display' = Display(d)
    /\ pending' = pending + 1
    /\ pc' = "MENU"
    /\ UNCHANGED <<url, response, directive, finalCSP, file, writes, steps, input,
                   pvars>>

\* The menu callback, answer P: print, save and exit.
OnPrint ==
    /\ pc = "MENU" /\ pending = 1
    /\ \E answer \in Answers :
          /\ IsCommand(answer, "P")
          /\ input' = answer
          /\ finalCSP' = serializeCSP(directives)
          /\ file' = serializeCSP(directives)
          /\ writes' = writes + 1
    /\ notice' = "none"
    /\ pending' = pending - 1
    /\ pc' = "TERMINATED"
    /\ steps' = steps + 1
    /\ UNCHANGED <<url, response, directives, directive, display, inserted, pvars>>

\* Mutant of OnAdd: without the return after addDirective the callback falls
\* through to the invalid-selection branch, whose editCSP asks a second
\* question.
OnAdd_FallsThrough ==
    /\ pc = "MENU" /\ pending = 1 /\ steps < MaxSteps
    /\ \E answer \in Answers :
          /\ ~IsCommand(answer, "P")
          /\ IsCommand(answer, "A")
          /\ input' = answer
    /\ notice' = "invalid_selection"
    /\ pending' = (pending - 1) + 2
    /\ pc' = "ADD_NAME"
    /\ steps' = steps + 1
    /\ UNCHANGED <<url, response, directives, directive, display, finalCSP, file,
                   writes, inserted, pvars>>

\* The menu callback, answer A: addDirective registers the add prompt.
OnAdd ==
    /\ pc = "MENU" /\ pending = 1 /\ steps < MaxSteps
    /\ \E answer \in Answers :
          /\ ~IsCommand(answer, "P")
          /\ IsCommand(answer, "A")
          /\ input' = answer
    /\ notice' = "none"
    /\ pending' = (pending - 1) + 1
    /\ pc' = "ADD_NAME"
    /\ steps' = steps + 1
    /\ UNCHANGED <<url, response, directives, directive, display, finalCSP, file,
                   writes, inserted, pvars>>

\* Mutant of OnQuit: the policy is saved on the way out.
OnQuit_Saves ==
    /\ pc = "MENU" /\ pending = 1
    /\ \E answer \in Answers :
          /\ ~IsCommand(answer, "P")
          /\ ~IsCommand(answer, "A")
          /\ IsCommand(answer, "Q")
          /\ input' = answer
    /\ file' = serializeCSP(directives)
    /\ writes' = writes + 1
    /\ notice' = "exiting"
    /\ pending' = pending - 1
    /\ pc' = "TERMINATED"
    /\ steps' = steps + 1
    /\ UNCHANGED <<url, response, directives, directive, display, finalCSP,
                   inserted, pvars>>

\* The menu callback, answer Q: exit.
OnQuit ==
    /\ pc = "MENU" /\ pending = 1
    /\ \E answer \in Answers :
          /\ ~IsCommand(answer, "P")
          /\ ~IsCommand(answer, "A")
          /\ IsCommand(answer, "Q")
          /\ input' = answer
    /\ notice' = "exiting"
    /\ pending' = pending - 1
    /\ pc' = "TERMINATED"
    /\ steps' = steps + 1
    /\ UNCHANGED <<url, response, directives, directive, display, finalCSP, file,
                   writes, inserted, pvars>>

\* The menu callback, a number in range: the edit prompt is registered for
\* the key at that index of Object.keys(directives).
OnSelect ==
    /\ pc = "MENU" /\ pending = 1 /\ steps < MaxSteps
    /\ \E answer \in Answers :
          /\ ~IsCommand(answer, "P")
          /\ ~IsCommand(answer, "A")
          /\ ~IsCommand(answer, "Q")
          /\ InRange(answer, directives)
          /\ input' = answer
          /\ directive' = SelectedKey(answer, directives)
    /\ notice' = "none"
    /\ pending' = (pending - 1) + 1
    /\ pc' = "EDIT_VALUE"
    /\ steps' = steps + 1
    /\ UNCHANGED <<url, response, directives, display, finalCSP, file, writes,
                   inserted, pvars>>

\* Mutant of OnInvalid: an invalid selection ends the session.
OnInvalid_Exits ==
    /\ pc = "MENU" /\ pending = 1 /\ steps < MaxSteps
    /\ \E answer \in Answers :
          /\ ~IsCommand(answer, "P")
          /\ ~IsCommand(answer, "A")
          /\ ~IsCommand(answer, "Q")
          /\ ~InRange(answer, directives)
          /\ input' = answer
    /\ notice' = "invalid_selection"
    /\ pending' = pending - 1
    /\ pc' = "TERMINATED"
    /\ steps' = steps + 1
    /\ UNCHANGED <<url, response, directives, directive, display, finalCSP, file,
                   writes, inserted, pvars>>

\* The menu callback, anything else: the notice, then editCSP again.
OnInvalid ==
    /\ pc = "MENU" /\ pending = 1 /\ steps < MaxSteps
    /\ \E answer \in Answers :
          /\ ~IsCommand(answer, "P")
          /\ ~IsCommand(answer, "A")
          /\ ~IsCommand(answer, "Q")
          /\ ~InRange(answer, directives)
          /\ input' = answer
    /\ notice' = "invalid_selection"
    /\ display' = Display(directives)
    /\ pending' = (pending - 1) + 1
    /\ pc' = "MENU"
    /\ steps' = steps + 1
    /\ UNCHANGED <<url, response, directives, directive, finalCSP, file, writes,
                   inserted, pvars>>

\* The edit callback: the chosen directive gets the tokens of the line, then
\* editCSP again.
OnEditValue ==
    /\ pc = "EDIT_VALUE" /\ pending = 1 /\ steps < MaxSteps
    /\ \E newValue \in Lines :
          /\ input' = newValue
          /\ directives' = EditValue(directives, directive, newValue)
    /\ display' = Display(directives')
    /\ directive' = None
    /\ notice' = "none"
    /\ pending' = (pending - 1) + 1
    /\ pc' = "MENU"
    /\ steps' = steps + 1
    /\ UNCHANGED <<url, response, finalCSP, file, writes, inserted, pvars>>

\* The add callback: a line with a token adds or overwrites the directive
\* and goes back to editCSP; a line without one prints the notice and calls
\* addDirective again.
OnNewDirective ==
    /\ pc = "ADD_NAME" /\ pending = 1 /\ steps < MaxSteps
    /\ \E newDirective \in Lines :
          /\ input' = newDirective
          /\ IF LineTokens(newDirective) # <<>>
             THEN /\ directives' = AddTokens(directives, LineTokens(newDirective))
                  /\ inserted' = FirstOccurrences(
                         Append(inserted, LineTokens(newDirective)[1]))
                  /\ display' = Display(directives')
                  /\ notice' = "none"
                  /\ pc' = "MENU"
             ELSE /\ notice' = "invalid_directive"
                  /\ pc' = "ADD_NAME"
                  /\ UNCHANGED <<directives, inserted, display>>
    /\ pending' = (pending - 1) + 1
    /\ steps' = steps + 1
    /\ UNCHANGED <<url, response, directive, finalCSP, file, writes, pvars>>

Next ==
    \/ Main
    \/ GetCSP
    \/ OnPrint
    \/ OnAdd
    \/ OnQuit
    \/ OnSelect
    \/ OnInvalid
    \/ OnEditValue
    \/ OnNewDirective

Spec == Init /\ [][Next]_vars

\* ------------------------------------------------------------------------
\* Properties of the parser and the serializer (checked under SpecParse)
\* ------------------------------------------------------------------------

\* A well-formed policy string: no clause is empty or blank, there is no
\* tab, and inside a clause the tokens are separated by single spaces.
WellFormed(s) ==
    /\ \A i \in 1..Len(s) : s[i] # TAB
    /\ \A i \in 1..Len(split(s, SEMI)) :
          LET c == Strip(split(s, SEMI)[i])
          IN  /\ c # <<>>
              /\ \A k \in 1..(Len(c) - 1) : ~(c[k] = SP /\ c[k + 1] = SP)

\* C1: for a well-formed policy string S and D = deserializeCSP(S),
\* deserializeCSP(serializeCSP(D)) has the same names in the same order with
\* the same value sequences as D, also when a directive of D has no value.
C1_RoundTrip == (ppc = "reparsed" /\ WellFormed(S)) => D2 = D

\* A well-formed string was round-tripped whose set holds a directive with
\* values and a directive without any.
C1_Witness ==
    /\ ppc = "reparsed" /\ WellFormed(S)
    /\ \E i, j \in 1..Len(D) : D[i].values = <<>> /\ D[j].values # <<>>

\* C2: for any input string S whatsoever,
\* deserializeCSP(serializeCSP(deserializeCSP(S))) = deserializeCSP(S).
C2_IdempotentReparse == ppc = "reparsed" => D2 = D

\* A string that is not well-formed (a repeated name after a stray
\* separator, a run of spaces that parses into an empty value) was re-parsed.
C2_Witness ==
    /\ ppc = "reparsed" /\ ~WellFormed(S)
    /\ Len(PairNames(S)) > Len(D)
    /\ \E i \in 1..Len(D) : \E j \in 1..Len(D[i].values) : D[i].values[j] = <<>>

\* The clauses of S that hold something, without the white space around them.
ClausesOf(s) ==
    LET kept == SelectSeq(split(s, SEMI), NonBlank)
    IN  [i \in 1..Len(kept) |-> Strip(kept[i])]

\* The part of a clause before its first white-space character.
RECURSIVE HeadName(_)
HeadName(c) ==
    IF c = <<>> \/ c[1] \in WhiteSpace THEN <<>> ELSE <<c[1]>> \o HeadName(Tail(c))

\* The part of a clause after its name, as the sequence of pieces between
\* single spaces.
ValuesOf(c) == Tail(split(c, SP))

\* C6 (as claimed, for strings without tabs): a name that occurs in more than
\* one clause is held once, with the values of its last clause, at the
\* position of its first clause among the names; "a 1; b 2; a 3" gives
\* a: [3], b: [2] with a before b.
C6_LastWriteWinsStablePosition ==
    (ppc = "parsed" /\ \A q \in 1..Len(S) : S[q] # TAB) =>
        LET cls == ClausesOf(S)
            names == FirstOccurrences([i \in 1..Len(cls) |-> HeadName(cls[i])])
        IN  \A i, j \in 1..Len(cls) :
                (i < j /\ HeadName(cls[i]) = HeadName(cls[j])
                 /\ \A m \in (j + 1)..Len(cls) : HeadName(cls[m]) # HeadName(cls[j]))
                => /\ Cardinality({p \in 1..Len(D) : D[p].key = HeadName(cls[j])}) = 1
                   /\ \A p \in 1..Len(D) :
                         D[p].key = HeadName(cls[j])
                         => /\ D[p].values = mapTrim(ValuesOf(cls[j]))
                            /\ p <= Len(names)
                            /\ names[p] = HeadName(cls[j])

\* C8: leaving out the empty and blank clauses of a policy string, and the
\* spaces around its separators, does not change the set deserializeCSP
\* returns; "a 1; ; b 2;" parses like "a 1; b 2".
C8_ClauseWhitespaceTolerance ==
    ppc = "parsed" =>
        /\ D = D0
        /\ S = ExA1B2Stray
           => D = <<[key |-> <<"a">>, values |-> << <<"1">> >>],
                    [key |-> <<"b">>, values |-> << <<"2">> >>]>>

\* "a 1; ; b 2;" was parsed, and so was a string with nothing but blank clauses
\* in front of a directive.
C8_Witness ==
    /\ ppc = "parsed" /\ S = ExA1B2Stray /\ S # S0 /\ Len(D) = 2

RECURSIVE Decimal(_)
Decimal(n) ==
    LET d == CHOOSE c \in Digits : DigitVal(c) = n % 10
    IN  IF n < 10 THEN <<d>> ELSE Decimal(n \div 10) \o <<d>>

\* The names of a directive set, in its order.
Names(o) == [i \in 1..Len(o) |-> o[i].key]

\* The string the rows of a display spell: "name values" joined by "; ".
RowsText(disp) ==
    join([i \in 1..Len(disp.rows) |->
             disp.rows[i].directive \o <<SP>> \o disp.rows[i].values],
         <<SEMI, SP>>)

\* {default-src: ['self'], img-src: ['self', data:]}
SetDefaultImg ==
    <<[key |-> DefaultSrc, values |-> <<Self>>],
      [key |-> ImgSrc, values |-> <<Self, DataScheme>>]>>

\* {default-src: ['self'], img-src: ['self', https://cdn.example.com]}
SetDefaultImgCdn ==
    <<[key |-> DefaultSrc, values |-> <<Self>>],
      [key |-> ImgSrc, values |-> <<Self, CdnExample>>]>>

\* "default-src 'self'; img-src 'self' https://cdn.example.com"
TextDefaultImgCdn ==
    DefaultSrc \o <<SP>> \o Self \o <<SEMI, SP>> \o ImgSrc \o <<SP>> \o Self
        \o <<SP>> \o CdnExample

\* C3: the edit callback leaves the names, their order and their number as
\* they were and changes the values of no directive but the chosen one, then
\* goes back to MENU; a following P prints the serialization of that set.
\* From "default-src 'self'; img-src 'self' data:", the inputs 2,
\* "'self' https://cdn.example.com" and P print
\* "default-src 'self'; img-src 'self' https://cdn.example.com".
C3_EditChangesOnlyThatDirective ==
    [][/\ pc = "EDIT_VALUE"
          => /\ pc' = "MENU"
             /\ Names(directives') = Names(directives)
             /\ \A i \in 1..Len(directives) :
                   directives[i].key # directive => directives'[i] = directives[i]
       /\ (pc = "MENU" /\ input' = <<"P">>) => finalCSP' = serializeCSP(directives)
       /\ (pc = "fetching" /\ response.kind = "header" /\ response.csp = ExDefaultImg)
          => directives' = SetDefaultImg
       /\ (pc = "MENU" /\ directives = SetDefaultImg /\ input' = <<"2">>)
          => (pc' = "EDIT_VALUE" /\ directive' = ImgSrc)
       /\ (pc = "EDIT_VALUE" /\ directives = SetDefaultImg /\ directive = ImgSrc
           /\ input' = LineSelfCdn)
          => directives' = SetDefaultImgCdn
       /\ (pc = "MENU" /\ directives = SetDefaultImgCdn /\ input' = <<"P">>)
          => finalCSP' = TextDefaultImgCdn
      ]_vars

\* The scenario ran: the policy was fetched, directive 2 was edited and P
\* printed the edited policy, in three input lines.
C3_Witness ==
    /\ pc = "TERMINATED" /\ steps = 3 /\ input = <<"P">>
    /\ response.csp = ExDefaultImg
    /\ directives = SetDefaultImgCdn
    /\ finalCSP = TextDefaultImgCdn

\* C4 (as claimed, for lines without tabs): the add callback, given a line
\* with a token, goes back to MENU with the first token mapped to the other
\* tokens; a new name is appended after all existing directives, an existing
\* name has its values overwritten and nothing else changes.
C4_AddAppendsOrOverwrites ==
    [][(pc = "ADD_NAME" /\ (\A q \in 1..Len(input') : input'[q] # TAB)
        /\ LineTokens(input') # <<>>)
       => LET name == LineTokens(input')[1]
              values == Tail(LineTokens(input'))
          IN  /\ pc' = "MENU"
              /\ IF \E i \in 1..Len(directives) : directives[i].key = name
                 THEN /\ Names(directives') = Names(directives)
                      /\ \A i \in 1..Len(directives) :
                            directives'[i] = IF directives[i].key = name
                                             THEN [key |-> name, values |-> values]
                                             ELSE directives[i]
                 ELSE directives' = Append(directives, [key |-> name, values |-> values])
      ]_vars

\* C5 (as claimed): at MENU with n directives, "0" and "n+1" are invalid
\* selections (MENU again, set unchanged) and "k" with 1 <= k <= n moves to
\* EDIT_VALUE for the k-th directive in insertion order.
C5_MenuSelectionBoundaries ==
    [][pc = "MENU"
       => /\ input' \in {Decimal(0), Decimal(Len(directives) + 1)}
             => (pc' = "MENU" /\ directives' = directives
                 /\ notice' = "invalid_selection")
          /\ \A k \in 1..Len(directives) :
                input' = Decimal(k)
                => (pc' = "EDIT_VALUE" /\ directives' = directives
                    /\ directive' = inserted[k])
      ]_vars

\* C7 (as claimed): in every state of a session the names of the set, the
\* rows displayed at MENU and the clauses printed on P are in the order in
\* which the names were first inserted.
C7_InsertionOrderPreserved ==
    pc \in {"MENU", "EDIT_VALUE", "ADD_NAME", "TERMINATED"}
    => /\ ObjectKeys(directives) = inserted
       /\ [i \in 1..Len(display.rows) |-> display.rows[i].directive] = inserted
       /\ finalCSP # None
          => finalCSP = join([i \in 1..Len(inserted) |->
                                 inserted[i] \o <<SP>>
                                     \o join(Get(directives, inserted[i]), <<SP>>)],
                             <<SEMI, SP>>)

\* C10: at MENU the answers "P" and "p" print serializeCSP of the set as it
\* stands, which is the set last displayed, and end the session: the state is
\* TERMINATED, no prompt is outstanding and no step follows.
C10_PrintAndExit ==
    /\ [][(pc = "MENU" /\ input' \in {<<"P">>, <<"p">>})
          => /\ pc' = "TERMINATED"
             /\ finalCSP' = serializeCSP(directives)
             /\ finalCSP' = RowsText(display)
             /\ directives' = directives
             /\ pending' = 0]_vars
    /\ [][pc # "TERMINATED"]_vars
    /\ [](pc = "TERMINATED" => pending = 0)

\* A session ended by "p" after an add and an edit, the printed string being
\* that of the edited set.
C10_Witness ==
    /\ pc = "TERMINATED" /\ input = <<"p">> /\ steps = 5
    /\ response.kind = "header"
    /\ Len(directives) > Len(deserializeCSP(response.csp))
    /\ finalCSP = serializeCSP(directives)
    /\ finalCSP # serializeCSP(deserializeCSP(response.csp))

\* C11: generated_csp.txt is written at most once in a run, only by the
\* step from MENU on P to TERMINATED, and with the serialized set; the step
\* on Q or q serializes and writes nothing; no other step writes.
C11_PersistOnlyOnPrint ==
    /\ [](writes <= 1 /\ (writes = 0 <=> file = None))
    /\ [][(writes' # writes \/ file' # file)
          => /\ pc = "MENU" /\ pc' = "TERMINATED"
             /\ input' \in {<<"P">>, <<"p">>}
             /\ writes' = writes + 1
             /\ file' = serializeCSP(directives)
             /\ directives' = directives]_vars
    /\ [][(pc = "MENU" /\ input' \in {<<"Q">>, <<"q">>})
          => /\ pc' = "TERMINATED"
             /\ file' = file /\ writes' = writes /\ finalCSP' = finalCSP
             /\ file' = None /\ finalCSP' = None]_vars

\* A session ended on q after an edit, with nothing serialized or written.
C11_Witness ==
    /\ pc = "TERMINATED" /\ input = <<"q">> /\ steps = 3
    /\ writes = 0 /\ file = None /\ finalCSP = None
    /\ response.kind = "header" /\ directives # deserializeCSP(response.csp)

\* The command letters of the menu, in either case.
CommandLetters == {<<"P">>, <<"p">>, <<"Q">>, <<"q">>, <<"A">>, <<"a">>}

\* C12 (as claimed): at MENU every line that is neither a command letter nor
\* the decimal representation of an integer in 1..n leaves the set unchanged,
\* prints the invalid-selection notice and prompts at MENU again; this
\* includes the empty line, text without digits, negative numbers and text
\* that only begins with or contains digits.
C12_InvalidSelection ==
    [][(pc = "MENU" /\ input' \notin CommandLetters
        /\ \A k \in 1..Len(directives) : input' # Decimal(k))
       => /\ pc' = "MENU"
          /\ directives' = directives
          /\ notice' = "invalid_selection"
          /\ pending' = 1
      ]_vars

\* C13 (as claimed): at ADD_NAME every line that is empty or made of spaces
\* and tabs only leaves the set unchanged, prints the invalid-directive
\* notice and prompts at ADD_NAME again: no directive is added.
C13_InvalidNewDirective ==
    [][(pc = "ADD_NAME" /\ \A q \in 1..Len(input') : input'[q] \in {SP, TAB})
       => /\ pc' = "ADD_NAME"
          /\ directives' = directives
          /\ notice' = "invalid_directive"
          /\ pending' = 1
      ]_vars

\* The states in which a prompt is awaited.
Prompting == {"MENU", "EDIT_VALUE", "ADD_NAME"}

\* C14: TERMINATED is entered only from MENU on P, p, Q or q; every other
\* input line, in MENU, EDIT_VALUE or ADD_NAME, leaves the session at a
\* prompt; and a termination stays possible: at MENU both P and Q can be
\* answered, an edit line always leads back to MENU, and at ADD_NAME a line
\* that leads back to MENU can be typed.
C14_NoInputAbortsLoop ==
    /\ [][pc' = "TERMINATED"
          => (pc = "MENU" /\ input' \in {<<"P">>, <<"p">>, <<"Q">>, <<"q">>})]_vars
    /\ [][(pc \in Prompting
           /\ ~(pc = "MENU" /\ input' \in {<<"P">>, <<"p">>, <<"Q">>, <<"q">>}))
          => (pc' \in Prompting /\ pending' = 1)]_vars
    /\ [][pc = "EDIT_VALUE" => pc' = "MENU"]_vars
    /\ [](pc = "MENU" => (ENABLED OnPrint /\ ENABLED OnQuit))
    /\ []((pc = "EDIT_VALUE" /\ steps < MaxSteps) => ENABLED OnEditValue)
    /\ []((pc = "ADD_NAME" /\ steps < MaxSteps)
          => ENABLED (OnNewDirective /\ pc' = "MENU"))

\* After an invalid selection and an invalid directive line the session is
\* still prompting and can go on.
C14_Witness ==
    /\ pc = "ADD_NAME" /\ notice = "invalid_directive" /\ steps = 4
    /\ pending = 1 /\ ENABLED (OnNewDirective /\ pc' = "MENU")

\* The response carries no policy: no header, or the fetch threw.
NoPolicy == response.kind \in {"noheader", "error"}

\* {frame-ancestors: ['none']}
SetFrameAncestors == <<[key |-> FrameAncestors, values |-> <<QuotedNone>>]>>

\* C15: without a content-security-policy header, or when the fetch throws,
\* getCSP yields the empty set and the editor starts at MENU showing 0
\* directives with its prompt registered; adding and printing then work as
\* in any session: A opens the add prompt, "frame-ancestors 'none'" gives
\* the set with that one directive, and P prints "frame-ancestors 'none'".
C15_AbsenceStartsEmptySession ==
    /\ [][(pc = "fetching" /\ NoPolicy)
          => /\ pc' = "MENU"
             /\ directives' = <<>>
             /\ display' = [count |-> 0, rows |-> <<>>]
             /\ notice' \in {"no_policy", "fetch_error"}
             /\ (notice' = "fetch_error" <=> response.kind = "error")
             /\ pending' = 1]_vars
    /\ [][(NoPolicy /\ pc = "MENU" /\ input' \in {<<"A">>, <<"a">>})
          => pc' = "ADD_NAME"]_vars
    /\ [][(NoPolicy /\ pc = "ADD_NAME" /\ directives = <<>>
           /\ input' = LineFrameAncestors)
          => (pc' = "MENU" /\ directives' = SetFrameAncestors)]_vars
    /\ [][(NoPolicy /\ pc = "MENU" /\ input' = <<"P">>)
          => /\ pc' = "TERMINATED"
             /\ finalCSP' = RowsText(display)
             /\ directives = SetFrameAncestors => finalCSP' = LineFrameAncestors]_vars

\* The fetch threw, and A, "frame-ancestors 'none'" and P printed that policy.
C15_Witness ==
    /\ pc = "TERMINATED" /\ response.kind = "error" /\ steps = 3
    /\ input = <<"P">> /\ directives = SetFrameAncestors
    /\ finalCSP = LineFrameAncestors

\* The maximal runs of characters other than white space, in order.
RECURSIVE WsTokens(_)
WsTokens(s) ==
    IF StripLeft(s) = <<>> THEN <<>>
    ELSE <<HeadName(StripLeft(s))>>
             \o WsTokens(SubSeq(StripLeft(s), Len(HeadName(StripLeft(s))) + 1,
                                Len(StripLeft(s))))

\* C16 (as claimed): whatever line is typed in EDIT_VALUE, the chosen
\* directive's new values are exactly the maximal non-white-space tokens of
\* the line, in order (spaces, runs of spaces and tabs all separate; an empty
\* or blank line gives no value), and the next state is MENU.
C16_EditValueTokenization ==
    [][pc = "EDIT_VALUE"
       => /\ pc' = "MENU"
          /\ HasKey(directives', directive)
          /\ Get(directives', directive) = WsTokens(input')
      ]_vars

\* The policy string whose clauses are those of s with their tokens
\* separated by single spaces.
SingleSpaced(s) ==
    join([i \in 1..Len(ClausesOf(s)) |-> join(WsTokens(ClausesOf(s)[i]), <<SP>>)],
         <<SEMI>>)

\* C17 (as claimed): each clause is split on white space, so a string whose
\* tokens are separated by runs of spaces or by tabs parses to the same names
\* and values as the string with single spaces, and no value is empty.
C17_ParserTokenization ==
    ppc = "parsed"
    => /\ D = deserializeCSP(SingleSpaced(S))
       /\ \A i \in 1..Len(D) : \A j \in 1..Len(D[i].values) : D[i].values[j] # <<>>
       /\ \A i \in 1..Len(D) : D[i].key = HeadName(D[i].key)

\* C18: at most one rl.question callback is outstanding in every state, and
\* exactly one in MENU, EDIT_VALUE and ADD_NAME; none before the fetch has
\* completed, none after TERMINATED; a callback that handles a line registers
\* at most one prompt (the one it consumed is replaced, never doubled).
C18_SinglePendingPrompt ==
    /\ [](pending \in {0, 1})
    /\ [](pc \in Prompting <=> pending = 1)
    /\ [](pc \in {"main", "fetching", "usage", "TERMINATED"} => pending = 0)
    /\ [][(pc \in Prompting => (pending' - (pending - 1)) \in {0, 1})]_vars
    /\ [][pc = "fetching" => (pending = 0 /\ pending' = 1)]_vars

\* After five input lines, among them an add and an invalid selection, one
\* prompt is outstanding.
C18_Witness ==
    /\ pc = "EDIT_VALUE" /\ steps = 5 /\ pending = 1
    /\ response.kind = "header"
    /\ Len(directives) > Len(deserializeCSP(response.csp))

\* Some name or value of the directive set contains the character c.
Contains(o, c) ==
    \E i \in 1..Len(o) :
        \/ \E q \in 1..Len(o[i].key) : o[i].key[q] = c
        \/ \E j \in 1..Len(o[i].values) :
               \E q \in 1..Len(o[i].values[j]) : o[i].values[j][q] = c

\* In a MENU state, for every displayed number k: the line k selects the
\* directive displayed with number k.
SelectionAgreesWithDisplay ==
    /\ display.count = Len(display.rows)
    /\ \A k \in 1..display.count :
          /\ display.rows[k].index = k
          /\ InRange(Decimal(k), directives)
          /\ SelectedKey(Decimal(k), directives) = display.rows[k].directive

\* In a MENU state: the clauses of the serialized set (its segments between
\* the ";" separators) are as many as the displayed count, and the k-th one
\* names the directive displayed with number k.
SerializationAgreesWithDisplay ==
    LET clauses == ClausesOf(serializeCSP(directives))
    IN  /\ display.count = Len(clauses)
        /\ \A k \in 1..display.count :
              k <= Len(clauses) => HeadName(clauses[k]) = display.rows[k].directive

\* C19 (as claimed): in every MENU state the directive that the line k
\* selects is the one displayed with number k, it is the k-th clause of the
\* serialized set, and the displayed count is the number of clauses.  Sets
\* holding a tab are left to C13 and C16.
C19_DisplaySelectionSerializationAgree ==
    (pc = "MENU" /\ ~Contains(directives, TAB))
    => SelectionAgreesWithDisplay /\ SerializationAgreesWithDisplay

\* C20 (as claimed): whatever was typed at the edit and add prompts, the
\* string emitted on P parses back to the directive set held at termination.
\* Sets holding a tab are left to C13 and C16.
C20_EmittedPolicyReparses ==
    (pc = "TERMINATED" /\ finalCSP # None /\ ~Contains(directives, TAB))
    => deserializeCSP(finalCSP) = directives

====
